---- MODULE Spec2Model ----
(***************************************************************************)
(* A model of imagediff (src/imagediff.go): the chunk partitioner          *)
(* createChunks, the per-chunk difference computeDiffChunk, the image      *)
(* statistics, and the fork-join of main.                                  *)
(*                                                                         *)
(* Numbers.  A float64 is modelled as an exact rational <<n, d>> in lowest *)
(* terms with d > 0; <<0, 0>> is NaN (the 0/0 of an empty image).  The     *)
(* inputs are chosen so that every float operation of the program is exact *)
(* on them (sums of small integers, dyadic scale factors, variances that   *)
(* are squares of rationals), so the rational result is the float64        *)
(* result.                                                                 *)
(*                                                                         *)
(* Images.  An image is [bounds, pix]: pix maps each point <<x, y>> of the *)
(* bounds to an 8-bit colour <<r, g, b, a>> (color.RGBA, as in the tests). *)
(***************************************************************************)
EXTENDS Integers, Sequences, FiniteSets, TLC

VARIABLES
    pc,             \* position of main (or of the caller of a function)
    diffMode,       \* *diffModePtr
    normalized,     \* *normalizedPtr
    scaleFlag,      \* *scalePtr
    normScaleFlag,  \* *normalizedScalePtr
    scaleFactor,    \* scaleFactor of main, the argument of computeDiffChunk
    img1, img2,     \* the decoded images
    bounds1, bounds2,
    stats1, stats2,
    statsCalls,     \* history: number of calls of calculateImageStats
    diffImg,        \* the output image; NoImage before image.NewRGBA
    numChunksX, numChunksY,
    iter,           \* <<i, j>>: the loop indexes of the createChunks iterator
    chunks,         \* the chunks yielded so far
    workers,        \* the goroutines launched so far, one frame each
    wg,             \* the counter of the sync.WaitGroup
    count1, count2, diffCount,
    writtenBy,      \* history: per point, the workers that called diffImg.Set
    logged,         \* the counters as the verbose log printed them, or <<>>
    reported,       \* the diffCount of the final message, or <<>>
    finalImg,       \* the image handed to png.Encode
    outFile,        \* the output file: "none", "created", "encoded"
    tmpFile,        \* TRUE when the output file is one os.CreateTemp made
    viewer,         \* "none", "opened" (still running), "closed"
    exitCode,       \* -1 while running, then the exit status of the process
    errMsg          \* the error the process printed before os.Exit(1), or ""

flags == <<diffMode, normalized, scaleFlag, normScaleFlag>>

images == <<img1, img2, bounds1, bounds2>>

statVars == <<stats1, stats2, statsCalls>>

gridVars == <<numChunksX, numChunksY>>

counters == <<count1, count2, diffCount>>

outVars == <<logged, reported, finalImg, outFile, tmpFile, viewer, exitCode,
             errMsg>>

vars == <<pc, flags, scaleFactor, images, statVars, diffImg, gridVars, iter,
          chunks, workers, wg, counters, writtenBy, outVars>>

(***************************************************************************)
(* Bounds of the model.                                                    *)
(***************************************************************************)
\* createChunks as a function: widths and heights 1..MaxDim
MaxDim == 4
\* createChunks as a function: numChunksX, numChunksY in 1..MaxChunks
MaxChunks == 5
\* main: the long edge of the large images
MaxEdge == 65
\* main: runtime.NumCPU() in 1..MaxCPU
MaxCPU == 4

(***************************************************************************)
(* Integer helpers.                                                        *)
(***************************************************************************)
Abs(n) == IF n < 0 THEN -n ELSE n

RECURSIVE GCD(_, _)
GCD(a, b) == IF b = 0 THEN a ELSE GCD(b, a % b)

\* floor of the square root of n >= 0, by bisection: lo * lo <= n < hi * hi
RECURSIVE ISqrtBetween(_, _, _)
ISqrtBetween(n, lo, hi) ==
    IF hi - lo <= 1 THEN lo
    ELSE LET mid == (lo + hi) \div 2
         IN  IF mid * mid <= n THEN ISqrtBetween(n, mid, hi)
             ELSE ISqrtBetween(n, lo, mid)

ISqrt(n) == ISqrtBetween(n, 0, IF n < 46340 THEN n + 1 ELSE 46341)

(***************************************************************************)
(* image.Rectangle, image.Point.                                           *)
(***************************************************************************)
Rect(x0, y0, x1, y1) == [minX |-> x0, minY |-> y0, maxX |-> x1, maxY |-> y1]

Dx(r) == r.maxX - r.minX

Dy(r) == r.maxY - r.minY

Points(r) == (r.minX .. r.maxX - 1) \X (r.minY .. r.maxY - 1)

\* the half-open rectangle of a Chunk, as the loops of computeDiffChunk walk it
ChunkPoints(c) == (c.startX .. c.endX - 1) \X (c.startY .. c.endY - 1)

(***************************************************************************)
(* createChunks: the iterator's loop over i (rows) and j (columns).        *)
(***************************************************************************)
\* a bug that forgets the remainder: the last chunk is sized like the others
NoRemainderEndX(bounds, startX, chunkWidth) == startX + chunkWidth

\* if j == numChunksX-1 { endX = bounds.Max.X }
LastChunkEndX(bounds, startX, chunkWidth) == bounds.maxX

\* if i == numChunksY-1 { endY = bounds.Max.Y }
LastChunkEndY(bounds, startY, chunkHeight) == bounds.maxY

\* a bug that lets the chunks of a row overlap by one column
OverlapStartX(bounds, j, chunkWidth) ==
    IF j = 0 THEN bounds.minX ELSE bounds.minX + j * chunkWidth - 1

ChunkStartX(bounds, j, chunkWidth) == bounds.minX + j * chunkWidth

ChunkAt(bounds, nX, nY, i, j) ==
    LET width       == Dx(bounds)
        height      == Dy(bounds)
        chunkWidth  == width \div nX
        chunkHeight == height \div nY
        startX      == ChunkStartX(bounds, j, chunkWidth)
        startY      == bounds.minY + i * chunkHeight
        endX        == IF j = nX - 1
                       THEN LastChunkEndX(bounds, startX, chunkWidth)
                       ELSE startX + chunkWidth
        endY        == IF i = nY - 1
                       THEN LastChunkEndY(bounds, startY, chunkHeight)
                       ELSE startY + chunkHeight
    IN  [startX |-> startX, endX |-> endX, startY |-> startY, endY |-> endY]

\* the loop indexes after the body ran for <<i, j>>
IterAdvance(nX, i, j) == IF j + 1 < nX THEN <<i, j + 1>> ELSE <<i + 1, 0>>

\* the outer loop's condition fails: the iterator is exhausted
IterDone(nY, i) == i >= nY

(***************************************************************************)
(* Values before the program sets them.                                    *)
(***************************************************************************)
NoImage == [bounds |-> Rect(0, 0, 0, 0), pix |-> <<>>]

Zero == <<0, 1>>

ZeroStats == [meanR |-> Zero, meanG |-> Zero, meanB |-> Zero, meanA |-> Zero,
              stdR |-> Zero, stdG |-> Zero, stdB |-> Zero, stdA |-> Zero]

\* nothing printed, no file, no viewer, the process running
NothingOut ==
    /\ logged = <<>> /\ reported = <<>> /\ finalImg = NoImage
    /\ outFile = "none" /\ tmpFile = FALSE /\ viewer = "none"
    /\ exitCode = -1 /\ errMsg = ""

(***************************************************************************)
(* float64 as exact rationals <<n, d>>, d > 0, in lowest terms; NaN is     *)
(* <<0, 0>>.  No division of a non-zero value by zero is reachable (count  *)
(* is 0 only when every sum is 0, and normalizePixel tests std == 0), so   *)
(* the infinities are not represented.                                     *)
(***************************************************************************)
NaN == <<0, 0>>

IsNaN(q) == q[2] = 0

Norm(n, d) ==
    IF d = 0 THEN NaN
    ELSE LET g == GCD(Abs(n), Abs(d))
             s == IF d < 0 THEN -1 ELSE 1
         IN  <<(s * n) \div g, (s * d) \div g>>

FromInt(n) == <<n, 1>>

RAdd(a, b) ==
    IF IsNaN(a) \/ IsNaN(b) THEN NaN
    ELSE LET l == (a[2] * b[2]) \div GCD(a[2], b[2])
         IN  Norm(a[1] * (l \div a[2]) + b[1] * (l \div b[2]), l)

RNeg(a) == IF IsNaN(a) THEN NaN ELSE <<-a[1], a[2]>>

RSub(a, b) == RAdd(a, RNeg(b))

RMul(a, b) ==
    IF IsNaN(a) \/ IsNaN(b) THEN NaN
    ELSE LET g1 == GCD(Abs(a[1]), b[2])
             g2 == GCD(Abs(b[1]), a[2])
             h1 == IF g1 = 0 THEN 1 ELSE g1
             h2 == IF g2 = 0 THEN 1 ELSE g2
         IN  Norm((a[1] \div h1) * (b[1] \div h2), (a[2] \div h2) * (b[2] \div h1))

RDiv(a, b) ==
    IF IsNaN(a) \/ IsNaN(b) \/ b[1] = 0 THEN NaN
    ELSE RMul(a, Norm(b[2], b[1]))

\* math.Abs
RAbs(a) == IF IsNaN(a) THEN NaN ELSE <<Abs(a[1]), a[2]>>

\* a > 0 (false of NaN, as every float comparison is)
RPositive(a) == a[1] > 0

RLess(a, b) == ~IsNaN(a) /\ ~IsNaN(b) /\ a[1] * b[2] < b[1] * a[2]

\* the builtin min of Go on floats
RMin(a, b) == IF IsNaN(a) \/ IsNaN(b) THEN NaN ELSE IF RLess(b, a) THEN b ELSE a

\* math.Sqrt: exact when the argument is the square of a rational
Sqrt(a) == IF IsNaN(a) THEN NaN ELSE Norm(ISqrt(a[1] * a[2]), a[2])

IsSquare(a) == ~IsNaN(a) /\ ISqrt(a[1] * a[2]) * ISqrt(a[1] * a[2]) = a[1] * a[2]

\* the conversion uint8(f) of a float 0 <= f <= 255: truncation
ToUint8(a) == a[1] \div a[2]

(***************************************************************************)
(* Colours and images.                                                     *)
(***************************************************************************)
\* color.RGBA.RGBA(): an 8-bit channel v widened to 16 bits, v | v << 8
RGBA16(v) == v * 257

\* float64(r) / 257: the 16-bit channel brought back to the 8-bit range
Chan8(v) == Norm(RGBA16(v), 257)

\* image.RGBA.At: the zero colour outside the bounds
At(img, p) == IF p \in DOMAIN img.pix THEN img.pix[p] ELSE <<0, 0, 0, 0>>

\* image.RGBA.Set: nothing outside the bounds
SetPixel(img, p, col) ==
    IF p \in DOMAIN img.pix THEN [img EXCEPT !.pix[p] = col] ELSE img

\* image.NewRGBA: every pixel the zero colour
NewRGBA(r) == [bounds |-> r, pix |-> [p \in Points(r) |-> <<0, 0, 0, 0>>]]

\* the points of a rectangle in the order of the loops, y outside, x inside
PointSeq(r) ==
    [k \in 1 .. Dx(r) * Dy(r) |->
        <<r.minX + ((k - 1) % Dx(r)), r.minY + ((k - 1) \div Dx(r))>>]

(***************************************************************************)
(* calculateImageStats.                                                    *)
(***************************************************************************)
\* first pass: sum += float64(c) / 257 over the points ps[lo..hi].  The
\* additions are exact, so the sum does not depend on how they are grouped;
\* the range is halved to keep the recursion shallow.
RECURSIVE SumChan(_, _, _, _, _)
SumChan(img, ps, c, lo, hi) ==
    IF lo > hi THEN Zero
    ELSE IF lo = hi THEN Chan8(At(img, ps[lo])[c])
    ELSE LET mid == (lo + hi) \div 2
         IN  RAdd(SumChan(img, ps, c, lo, mid), SumChan(img, ps, c, mid + 1, hi))

\* second pass: sumSqDiff += (c8 - mean) * (c8 - mean) over ps[lo..hi]
RECURSIVE SumSqDiff(_, _, _, _, _, _)
SumSqDiff(img, ps, c, mean, lo, hi) ==
    IF lo > hi THEN Zero
    ELSE IF lo = hi
         THEN LET d == RSub(Chan8(At(img, ps[lo])[c]), mean) IN RMul(d, d)
    ELSE LET mid == (lo + hi) \div 2
         IN  RAdd(SumSqDiff(img, ps, c, mean, lo, mid),
                  SumSqDiff(img, ps, c, mean, mid + 1, hi))

\* count := float64(bounds.Dx() * bounds.Dy())
StatsCount(bounds) == FromInt(Dx(bounds) * Dy(bounds))

ChanMean(img, c) ==
    LET ps == PointSeq(img.bounds)
    IN  RDiv(SumChan(img, ps, c, 1, Len(ps)), StatsCount(img.bounds))

ChanVariance(img, c) ==
    LET ps == PointSeq(img.bounds)
    IN  RDiv(SumSqDiff(img, ps, c, ChanMean(img, c), 1, Len(ps)),
             StatsCount(img.bounds))

\* a bug that forgets the square root
ChanStdNoSqrt(img, c) == ChanVariance(img, c)

ChanStd(img, c) == Sqrt(ChanVariance(img, c))

calculateImageStats(img) ==
    [meanR |-> ChanMean(img, 1), meanG |-> ChanMean(img, 2),
     meanB |-> ChanMean(img, 3), meanA |-> ChanMean(img, 4),
     stdR |-> ChanStd(img, 1), stdG |-> ChanStd(img, 2),
     stdB |-> ChanStd(img, 3), stdA |-> ChanStd(img, 4)]

(***************************************************************************)
(* normalizePixel and the body of the loops of computeDiffChunk.           *)
(***************************************************************************)
\* a bug that divides by the magnitude of std
NormalizeAbsStd(value, mean, std) ==
    IF std = Zero THEN value ELSE RDiv(RSub(value, mean), RAbs(std))

\* a bug that gives 0 when std is 0
NormalizeZeroStd(value, mean, std) ==
    IF std = Zero THEN Zero ELSE RDiv(RSub(value, mean), std)

normalizePixel(value, mean, std) ==
    IF std = Zero THEN value ELSE RDiv(RSub(value, mean), std)

\* (r + g + b + a) > 0 on the 16-bit channels
NonZero(col) == RGBA16(col[1]) + RGBA16(col[2]) + RGBA16(col[3]) + RGBA16(col[4]) > 0

\* a bug that normalizes the left pixel only
NormalizedDiffsLeftOnly(c1, c2, s1, s2) ==
    <<RAbs(RSub(normalizePixel(Chan8(c1[1]), s1.meanR, s1.stdR), Chan8(c2[1]))),
      RAbs(RSub(normalizePixel(Chan8(c1[2]), s1.meanG, s1.stdG), Chan8(c2[2]))),
      RAbs(RSub(normalizePixel(Chan8(c1[3]), s1.meanB, s1.stdB), Chan8(c2[3]))),
      RAbs(RSub(normalizePixel(Chan8(c1[4]), s1.meanA, s1.stdA), Chan8(c2[4])))>>

\* the four channel differences <<rDiff, gDiff, bDiff, aDiff>>
NormalizedDiffs(c1, c2, s1, s2) ==
    <<RAbs(RSub(normalizePixel(Chan8(c1[1]), s1.meanR, s1.stdR),
                normalizePixel(Chan8(c2[1]), s2.meanR, s2.stdR))),
      RAbs(RSub(normalizePixel(Chan8(c1[2]), s1.meanG, s1.stdG),
                normalizePixel(Chan8(c2[2]), s2.meanG, s2.stdG))),
      RAbs(RSub(normalizePixel(Chan8(c1[3]), s1.meanB, s1.stdB),
                normalizePixel(Chan8(c2[3]), s2.meanB, s2.stdB))),
      RAbs(RSub(normalizePixel(Chan8(c1[4]), s1.meanA, s1.stdA),
                normalizePixel(Chan8(c2[4]), s2.meanA, s2.stdA)))>>

AbsoluteDiffs(c1, c2) ==
    <<RAbs(RSub(Chan8(c1[1]), Chan8(c2[1]))),
      RAbs(RSub(Chan8(c1[2]), Chan8(c2[2]))),
      RAbs(RSub(Chan8(c1[3]), Chan8(c2[3]))),
      RAbs(RSub(Chan8(c1[4]), Chan8(c2[4])))>>

ChannelDiffs(c1, c2, s1, s2, norm) ==
    IF norm THEN NormalizedDiffs(c1, c2, s1, s2) ELSE AbsoluteDiffs(c1, c2)

\* a bug that leaves aDiff out of the sum
DiffersRGB(d) == RPositive(RAdd(RAdd(d[1], d[2]), d[3]))

\* (rDiff + gDiff + bDiff + aDiff) > 0
Differs(d) == RPositive(RAdd(RAdd(RAdd(d[1], d[2]), d[3]), d[4]))

\* a bug that converts without min: the value wraps around modulo 256
ClipWraps(v, scale) == ToUint8(RMul(v, scale)) % 256

\* uint8(min(v * scaleFactor, 255))
Clip(v, scale) == ToUint8(RMin(RMul(v, scale), FromInt(255)))

\* a bug that lets aDiff decide too
BWAnyChannel(d, scale) ==
    IF RPositive(d[1]) \/ RPositive(d[2]) \/ RPositive(d[3]) \/ RPositive(d[4])
    THEN <<255, 255, 255>> ELSE <<0, 0, 0>>

RenderBW(d, scale) ==
    IF RPositive(d[1]) \/ RPositive(d[2]) \/ RPositive(d[3])
    THEN <<255, 255, 255>> ELSE <<0, 0, 0>>

\* a bug that adds aDiff to the average
GrayWithAlpha(d, scale) ==
    LET avgDiff == RDiv(RAdd(RAdd(RAdd(d[1], d[2]), d[3]), d[4]), FromInt(3))
        gray    == Clip(avgDiff, scale)
    IN  <<gray, gray, gray>>

RenderGray(d, scale) ==
    LET avgDiff == RDiv(RAdd(RAdd(d[1], d[2]), d[3]), FromInt(3))
        gray    == Clip(avgDiff, scale)
    IN  <<gray, gray, gray>>

RenderColor(d, scale) == <<Clip(d[1], scale), Clip(d[2], scale), Clip(d[3], scale)>>

\* a bug in the default branch: it falls back to the gray rendering
DefaultAsGray(d, scale) == RenderGray(d, scale)

\* the default branch of the switch
RenderDefault(d, scale) == <<Clip(d[1], scale), Clip(d[2], scale), Clip(d[3], scale)>>

Render(mode, d, scale) ==
    CASE mode = "bw"    -> RenderBW(d, scale)
      [] mode = "gray"  -> RenderGray(d, scale)
      [] mode = "color" -> RenderColor(d, scale)
      [] OTHER          -> RenderDefault(d, scale)

\* a bug that passes the alpha of the left pixel on
DiffPixelSourceAlpha(c1, c2, s1, s2, norm, scale, mode) ==
    LET d   == ChannelDiffs(c1, c2, s1, s2, norm)
        rgb == Render(mode, d, scale)
    IN  [out |-> <<rgb[1], rgb[2], rgb[3], c1[4]>>,
         n1  |-> IF NonZero(c1) THEN 1 ELSE 0,
         n2  |-> IF NonZero(c2) THEN 1 ELSE 0,
         nd  |-> IF Differs(d) THEN 1 ELSE 0]

\* one iteration of the inner loop on the colours c1, c2 of a point: the
\* colour it sets and what it adds to count1, count2, diffCount
DiffPixel(c1, c2, s1, s2, norm, scale, mode) ==
    LET d   == ChannelDiffs(c1, c2, s1, s2, norm)
        rgb == Render(mode, d, scale)
    IN  [out |-> <<rgb[1], rgb[2], rgb[3], 255>>,
         n1  |-> IF NonZero(c1) THEN 1 ELSE 0,
         n2  |-> IF NonZero(c2) THEN 1 ELSE 0,
         nd  |-> IF Differs(d) THEN 1 ELSE 0]

(***************************************************************************)
(* The images the model decodes: a few textures, laid over any bounds.     *)
(***************************************************************************)
ColA == <<100, 150, 200, 255>>

ColB == <<120, 170, 220, 255>>

\* ColA but for its alpha
ColHalf == <<100, 150, 200, 128>>

ColNone == <<0, 0, 0, 0>>

ColWhite == <<255, 255, 255, 255>>

ColBlack == <<0, 0, 0, 255>>

TexturePixel(t, x, y) ==
    CASE t = "uniA"    -> ColA
      [] t = "uniB"    -> ColB
      [] t = "checker" -> IF (x + y) % 2 = 0 THEN ColA ELSE ColNone
      [] t = "alpha"   -> IF (x + y) % 2 = 0 THEN ColA ELSE ColHalf
      [] t = "mixed"   -> IF (x + y) % 2 = 0 THEN ColHalf ELSE ColB
      [] t = "bw01"    -> IF (x + y) % 2 = 0 THEN ColWhite ELSE ColBlack
      [] t = "three"   -> CASE (x + y) % 3 = 0 -> ColA
                            [] (x + y) % 3 = 1 -> ColB
                            [] OTHER           -> ColNone

MakeImage(r, t) ==
    [bounds |-> r, pix |-> [p \in Points(r) |-> TexturePixel(t, p[1], p[2])]]

\* Every channel of the image takes one value, or two values on half of the
\* points each: the variance is then the square of a rational, and every
\* float operation of calculateImageStats is exact.
ExactStatsInput(img) ==
    \A c \in 1 .. 4 :
        LET vals == {img.pix[p][c] : p \in DOMAIN img.pix}
        IN  \/ Cardinality(vals) <= 1
            \/ /\ Cardinality(vals) = 2
               /\ \A v \in vals :
                    2 * Cardinality({p \in DOMAIN img.pix : img.pix[p][c] = v})
                        = Cardinality(DOMAIN img.pix)

\* scale factors: dyadic and >= 0
ScaleFactors == {<<0, 1>>, <<1, 8>>, <<1, 2>>, <<1, 1>>, <<50, 1>>}

DiffModes == {"bw", "gray", "color", "sepia"}

\* the pairs of textures of the left and the right image
TexturePairs ==
    {<<"uniA", "uniA">>, <<"uniA", "uniB">>, <<"checker", "uniB">>,
     <<"uniA", "alpha">>, <<"three", "checker">>, <<"checker", "checker">>,
     <<"alpha", "checker">>, <<"three", "uniA">>, <<"uniA", "mixed">>}

(***************************************************************************)
(* A call of computeDiffChunk: the frame of the call and its loops.  In    *)
(* main the call is made by a goroutine, which then adds the three counts  *)
(* to the shared counters and leaves (the deferred wg.Done).               *)
(***************************************************************************)
Frame(c) == [c |-> c, x |-> c.startX, y |-> c.startY,
             c1 |-> 0, c2 |-> 0, c3 |-> 0, st |-> "loop"]

\* the condition of the loops fails for good: y reached endY, or no row has
\* a point
LoopDone(f) == f.y >= f.c.endY \/ f.c.startX >= f.c.endX

\* a bug that starts every row after the first at x = 0
LoopAdvanceRowFromZero(f) ==
    IF f.x + 1 < f.c.endX THEN [f EXCEPT !.x = f.x + 1]
    ELSE [f EXCEPT !.x = 0, !.y = f.y + 1]

\* x++ and, at the end of a row, y++ with x back at startX
LoopAdvance(f) ==
    IF f.x + 1 < f.c.endX THEN [f EXCEPT !.x = f.x + 1]
    ELSE [f EXCEPT !.x = f.c.startX, !.y = f.y + 1]

\* one iteration of the inner loop of computeDiffChunk in worker w
LoopStep(w) ==
    /\ workers[w].st = "loop"
    /\ ~LoopDone(workers[w])
    /\ LET f == workers[w]
           p == <<f.x, f.y>>
           r == DiffPixel(At(img1, p), At(img2, p), stats1, stats2,
                          normalized, scaleFactor, diffMode)
       IN  /\ diffImg' = SetPixel(diffImg, p, r.out)
           /\ writtenBy' = IF p \in DOMAIN writtenBy
                           THEN [writtenBy EXCEPT ![p] = Append(@, w)]
                           ELSE writtenBy
           /\ workers' = [workers EXCEPT ![w] =
                            [LoopAdvance(f) EXCEPT !.c1 = f.c1 + r.n1,
                                                   !.c2 = f.c2 + r.n2,
                                                   !.c3 = f.c3 + r.nd]]
    /\ UNCHANGED <<pc, flags, scaleFactor, images, statVars, gridVars, iter,
                   chunks, wg, counters, outVars>>

\* return count1, count2, diffCount
LoopReturn(w) ==
    /\ workers[w].st = "loop"
    /\ LoopDone(workers[w])
    /\ workers' = [workers EXCEPT ![w].st = "returned"]
    /\ UNCHANGED <<pc, flags, scaleFactor, images, statVars, diffImg, gridVars,
                   iter, chunks, wg, counters, writtenBy, outVars>>

(***************************************************************************)
(* computeDiffChunk called as a function on small images (as               *)
(* TestComputeDiffChunk does), on any chunk inside the bounds.  The        *)
(* statistics are those main passes: calculateImageStats of each image     *)
(* when normalized, the zero ImageStats otherwise.                         *)
(***************************************************************************)
\* the images are w x h with w, h in 1..MaxSide
MaxSide == 2

SubChunks(r) ==
    {[startX |-> x0, endX |-> x1, startY |-> y0, endY |-> y1] :
        <<x0, x1, y0, y1>> \in
            {q \in (r.minX .. r.maxX) \X (r.minX .. r.maxX)
                   \X (r.minY .. r.maxY) \X (r.minY .. r.maxY) :
                q[1] < q[2] /\ q[3] < q[4]}}

InitDiff ==
    /\ pc = "call"
    /\ diffMode \in DiffModes
    /\ normalized \in BOOLEAN
    /\ scaleFactor \in ScaleFactors
    /\ \E w \in 1 .. MaxSide, h \in 1 .. MaxSide, t \in TexturePairs :
          /\ bounds1 = Rect(0, 0, w, h)
          /\ img1 = MakeImage(bounds1, t[1])
          /\ img2 = MakeImage(bounds1, t[2])
    /\ normalized => ExactStatsInput(img1) /\ ExactStatsInput(img2)
    /\ bounds2 = bounds1
    /\ stats1 = IF normalized THEN calculateImageStats(img1) ELSE ZeroStats
    /\ stats2 = IF normalized THEN calculateImageStats(img2) ELSE ZeroStats
    /\ statsCalls = IF normalized THEN 2 ELSE 0
    /\ diffImg = NewRGBA(bounds1)
    /\ writtenBy = [p \in Points(bounds1) |-> <<>>]
    /\ \E c \in SubChunks(bounds1) : workers = <<Frame(c)>>
    /\ scaleFlag = scaleFactor /\ normScaleFlag = scaleFactor
    /\ numChunksX = 1 /\ numChunksY = 1 /\ iter = <<0, 0>> /\ chunks = <<>>
    /\ wg = 0 /\ count1 = 0 /\ count2 = 0 /\ diffCount = 0
    /\ NothingOut

NextDiff == LoopStep(1) \/ LoopReturn(1)

SpecDiff == InitDiff /\ [][NextDiff]_vars

(***************************************************************************)
(* What a call of computeDiffChunk on chunk c in mode m comes to, computed *)
(* point by point from the body of its loop.                               *)
(***************************************************************************)
PointResult(p, m) ==
    DiffPixel(At(img1, p), At(img2, p), stats1, stats2, normalized, scaleFactor, m)

ResultImage(c, m) ==
    [bounds |-> bounds1,
     pix |-> [p \in Points(bounds1) |->
                IF p \in ChunkPoints(c) THEN PointResult(p, m).out
                ELSE <<0, 0, 0, 0>>]]

ResultCounts(c, m) ==
    <<Cardinality({p \in ChunkPoints(c) : PointResult(p, m).n1 = 1}),
      Cardinality({p \in ChunkPoints(c) : PointResult(p, m).n2 = 1}),
      Cardinality({p \in ChunkPoints(c) : PointResult(p, m).nd = 1})>>

\* C9: a call of computeDiffChunk with a diff mode other than "bw" and
\* "gray" ("color", "" or any other string) leaves the output image and
\* returns the three counts that the mode "color" gives on the same inputs.
C9_OtherModeIsColor ==
    (workers[1].st = "returned" /\ diffMode \notin {"bw", "gray"}) =>
        /\ diffImg = ResultImage(workers[1].c, "color")
        /\ <<workers[1].c1, workers[1].c2, workers[1].c3>>
              = ResultCounts(workers[1].c, "color")

\* an unrecognized mode, a chunk of several points, a pixel that is not gray
C9_Witness ==
    /\ workers[1].st = "returned"
    /\ diffMode = "sepia"
    /\ Cardinality(ChunkPoints(workers[1].c)) >= 2
    /\ \E p \in ChunkPoints(workers[1].c) :
          /\ diffImg.pix[p][1] # diffImg.pix[p][2]
          /\ diffImg.pix[p][1] \notin {0, 255}
    /\ workers[1].c3 >= 1

(***************************************************************************)
(* C11..C15, C18: what computeDiffChunk counts and renders, stated on the  *)
(* 8-bit channels of the two images.                                       *)
(***************************************************************************)
Returned == workers[1].st = "returned"

\* the 8-bit channels <<R, G, B, A>> of the left and the right pixel at p
Left(p) == At(img1, p)

Right(p) == At(img2, p)

\* C11: without normalization, in every mode and at every scale factor, a
\* call of computeDiffChunk returns count1 = the number of points of the
\* chunk whose left pixel has a non-zero channel, count2 = the same for the
\* right image, and diffCount = the number of points where the left and the
\* right pixel differ in one of the channels R, G, B, A.
C11_CountsNonNormalized ==
    (Returned /\ ~normalized) =>
        LET pts == ChunkPoints(workers[1].c)
        IN  /\ workers[1].c1
                 = Cardinality({p \in pts : \E k \in 1 .. 4 : Left(p)[k] # 0})
            /\ workers[1].c2
                 = Cardinality({p \in pts : \E k \in 1 .. 4 : Right(p)[k] # 0})
            /\ workers[1].c3 = Cardinality({p \in pts : Left(p) # Right(p)})

\* a chunk with a point that differs in alpha alone and a point that does
\* not differ, in a mode and at a scale factor other than the defaults
C11_Witness ==
    /\ Returned /\ ~normalized
    /\ diffMode = "gray"
    /\ scaleFactor = <<1, 8>>
    /\ workers[1].c3 >= 1
    /\ workers[1].c3 < Cardinality(ChunkPoints(workers[1].c))
    /\ \E p \in ChunkPoints(workers[1].c) :
          /\ Left(p) # Right(p)
          /\ \A k \in 1 .. 3 : Left(p)[k] = Right(p)[k]

\* the colour components <<R, G, B>> of the pixel the call wrote at p
OutRGB(p) == <<diffImg.pix[p][1], diffImg.pix[p][2], diffImg.pix[p][3]>>

\* the differences <<rDiff, gDiff, bDiff, aDiff>> the call computes at p
DiffsAt(p) == ChannelDiffs(Left(p), Right(p), stats1, stats2, normalized)

C13_WhiteIffCounted ==
    (Returned /\ diffMode = "bw") =>
        workers[1].c3
            = Cardinality({p \in ChunkPoints(workers[1].c) :
                              OutRGB(p) = <<255, 255, 255>>})

\* floor(d * s) capped at 255, in integers, for a scale factor s = n / m
FloorScaled(d, s) ==
    IF (d * s[1]) \div s[2] > 255 THEN 255 ELSE (d * s[1]) \div s[2]

\* C14: in the mode "color" without normalization, at a scale factor
\* s >= 0, each of the channels R, G, B of a pixel written is
\* min(floor(|left - right| * s), 255) of that channel alone: the absolute
\* 8-bit difference when s = 1, never above 255 and never wrapped around.
C14_ColorChannels ==
    (Returned /\ diffMode = "color" /\ ~normalized) =>
        \A p \in ChunkPoints(workers[1].c) : \A k \in 1 .. 3 :
            /\ diffImg.pix[p][k]
                  = FloorScaled(Abs(Left(p)[k] - Right(p)[k]), scaleFactor)
            /\ diffImg.pix[p][k] \in 0 .. 255
            /\ scaleFactor = <<1, 1>> =>
                  diffImg.pix[p][k] = Abs(Left(p)[k] - Right(p)[k])

\* a pixel whose channels are rounded down to three different values
C14_Witness ==
    /\ Returned /\ ~normalized
    /\ diffMode = "color"
    /\ scaleFactor = <<1, 8>>
    /\ \E p \in ChunkPoints(workers[1].c) :
          /\ diffImg.pix[p][1] * 8 < Abs(Left(p)[1] - Right(p)[1])
          /\ diffImg.pix[p][1] < diffImg.pix[p][2]
          /\ diffImg.pix[p][2] < diffImg.pix[p][3]

\* C15: in the mode "gray" without normalization, at a scale factor s >= 0,
\* the channels R, G, B of a pixel written all equal
\* min(floor((dR + dG + dB) / 3 * s), 255), dR, dG, dB being the absolute
\* differences of the channels; the difference of alpha does not count.
C15_GrayIntensity ==
    (Returned /\ diffMode = "gray" /\ ~normalized) =>
        \A p \in ChunkPoints(workers[1].c) :
            LET sum == Abs(Left(p)[1] - Right(p)[1])
                         + Abs(Left(p)[2] - Right(p)[2])
                         + Abs(Left(p)[3] - Right(p)[3])
                g   == FloorScaled(sum, <<scaleFactor[1], 3 * scaleFactor[2]>>)
            IN  OutRGB(p) = <<g, g, g>>

\* a gray pixel rounded down, and a pixel left at 0 where alpha alone differs
C15_Witness ==
    /\ Returned /\ ~normalized
    /\ diffMode = "gray"
    /\ scaleFactor = <<1, 8>>
    /\ \E p, q \in ChunkPoints(workers[1].c) :
          /\ OutRGB(p)[1] > 0
          /\ OutRGB(p)[1] * 24 < Abs(Left(p)[1] - Right(p)[1])
                                   + Abs(Left(p)[2] - Right(p)[2])
                                   + Abs(Left(p)[3] - Right(p)[3])
          /\ OutRGB(q) = <<0, 0, 0>>
          /\ Left(q)[4] # Right(q)[4]

\* every pixel of the image has one colour
Uniform(img) == \A p, q \in DOMAIN img.pix : img.pix[p] = img.pix[q]

\* the body of the loop at p as it runs without normalization
PlainResult(p) ==
    DiffPixel(Left(p), Right(p), ZeroStats, ZeroStats, FALSE, scaleFactor, diffMode)

\* C18: when each of the two images is uniform (every standard deviation
\* is 0), a call of computeDiffChunk with normalization writes the pixels
\* and returns the counts of the call without normalization at the same
\* scale factor.
C18_UniformNormalizedIsPlain ==
    (Returned /\ normalized /\ Uniform(img1) /\ Uniform(img2)) =>
        LET pts == ChunkPoints(workers[1].c)
        IN  /\ \A p \in pts : diffImg.pix[p] = PlainResult(p).out
            /\ workers[1].c1 = Cardinality({p \in pts : PlainResult(p).n1 = 1})
            /\ workers[1].c2 = Cardinality({p \in pts : PlainResult(p).n2 = 1})
            /\ workers[1].c3 = Cardinality({p \in pts : PlainResult(p).nd = 1})

\* two uniform images of different colours on 2 x 2, normalized at scale 50
\* in the mode "color": every pixel saturates, the counts are (4, 4, 4)
C18_Witness ==
    /\ Returned /\ normalized
    /\ Uniform(img1) /\ Uniform(img2)
    /\ diffMode = "color"
    /\ scaleFactor = <<50, 1>>
    /\ Cardinality(ChunkPoints(workers[1].c)) = 4
    /\ \A p \in ChunkPoints(workers[1].c) : diffImg.pix[p] = <<255, 255, 255, 255>>
    /\ <<workers[1].c1, workers[1].c2, workers[1].c3>> = <<4, 4, 4>>

\* C21: a call of computeDiffChunk writes the pixel of every point of its
\* chunk (once), never writes a pixel outside the chunk (those pixels of
\* the diff image stay as image.NewRGBA left them), returns counts that are
\* at most the area of the chunk, and changes neither source image.
C21_ChunkFrame ==
    /\ [](LET pts == ChunkPoints(workers[1].c)
          IN  /\ \A p \in Points(bounds1) \ pts :
                    writtenBy[p] = <<>> /\ diffImg.pix[p] = <<0, 0, 0, 0>>
              /\ \A p \in pts : Len(writtenBy[p]) <= 1
              /\ Returned =>
                    /\ \A p \in pts : writtenBy[p] = <<1>> /\ diffImg.pix[p][4] = 255
                    /\ workers[1].c1 <= Cardinality(pts)
                    /\ workers[1].c2 <= Cardinality(pts)
                    /\ workers[1].c3 <= Cardinality(pts))
    /\ [][img1' = img1 /\ img2' = img2]_vars

\* the call has returned from a chunk of one column that does not touch the
\* left edge of a 2 x 2 image; the pixels outside it differ too
C21_Witness ==
    /\ Returned
    /\ Dx(bounds1) = 2 /\ Dy(bounds1) = 2
    /\ workers[1].c.startX = 1 /\ workers[1].c.endX = 2
    /\ workers[1].c.startY = 0 /\ workers[1].c.endY = 2
    /\ workers[1].c3 = 2
    /\ \A p \in Points(bounds1) : Left(p) # Right(p)

\* C25: when the left and the right image are the same, a call of
\* computeDiffChunk in any mode (recognized or not), at any scale factor
\* >= 0, with or without normalization, returns diffCount = 0 and
\* count1 = count2, and every pixel it writes is (0, 0, 0, 255).
C25_IdenticalImages ==
    (Returned /\ img1 = img2) =>
        /\ workers[1].c3 = 0
        /\ workers[1].c1 = workers[1].c2
        /\ \A p \in ChunkPoints(workers[1].c) : diffImg.pix[p] = <<0, 0, 0, 255>>

\* a normalized call in an unrecognized mode at scale 50 on two copies of
\* an image that is not uniform and has zero pixels
C25_Witness ==
    /\ Returned /\ img1 = img2
    /\ normalized /\ ~Uniform(img1)
    /\ diffMode = "sepia"
    /\ scaleFactor = <<50, 1>>
    /\ workers[1].c1 > 0
    /\ workers[1].c1 < Cardinality(ChunkPoints(workers[1].c))

(***************************************************************************)
(* main, from the validation of -diff-mode on (both input files are        *)
(* given).  The collaborators outside the program (the files, image.Decode,*)
(* png.Encode, the viewer) either fail or succeed; image.Decode may hand   *)
(* back an image of any bounds.                                            *)
(***************************************************************************)
minChunkSize == 32

\* a bug that accepts every mode string
AnyDiffMode(m) == TRUE

\* the modes main lets through
ValidDiffMode(m) == m = "bw" \/ m = "gray" \/ m = "color"

\* a bug that compares the widths only
WidthsDiffer(b1, b2) == Dx(b1) # Dx(b2)

\* bounds1 != bounds2
BoundsDiffer(b1, b2) == b1 # b2

\* a bug that leaves out the two tests against minChunkSize
MainGridNoShrink(numCPU, b) ==
    LET nx0 == ISqrt(numCPU)
        ny0 == numCPU \div nx0
        ny1 == IF nx0 * ny0 < numCPU THEN ny0 + 1 ELSE ny0
    IN  <<IF nx0 < 1 THEN 1 ELSE nx0, IF ny1 < 1 THEN 1 ELSE ny1>>

\* the grid <<numChunksX, numChunksY>> main derives from runtime.NumCPU()
MainGrid(numCPU, b) ==
    LET nx0 == ISqrt(numCPU)
        ny0 == numCPU \div nx0
        ny1 == IF nx0 * ny0 < numCPU THEN ny0 + 1 ELSE ny0
        nx1 == IF Dx(b) \div nx0 < minChunkSize THEN Dx(b) \div minChunkSize ELSE nx0
        ny2 == IF Dy(b) \div ny1 < minChunkSize THEN Dy(b) \div minChunkSize ELSE ny1
    IN  <<IF nx1 < 1 THEN 1 ELSE nx1, IF ny2 < 1 THEN 1 ELSE ny2>>

\* a bug that forgets wg.Add
WgAddNone(n) == n

\* a bug that registers every worker twice
WgAddTwice(n) == n + 2

\* wg.Add(1)
WgAdd(n) == n + 1

\* a bug that lets wg.Wait return while one worker is still registered
WaitReturnsEarly(n) == n <= 1

\* wg.Wait returns when the counter is zero
WaitReturns(n) == n = 0

\* a bug that stores the chunk's count instead of adding it
StoreInt64(counter, delta) == delta

\* atomic.AddInt64: one indivisible read-modify-write
AtomicAddInt64(counter, delta) == counter + delta

\* a bug that reads src from (0, 0) whatever sp is
DrawFromZero(dst, r, src, sp) ==
    [dst EXCEPT !.pix =
        [p \in DOMAIN dst.pix |->
            LET q == <<p[1] - r.minX, p[2] - r.minY>>
            IN  IF p \in Points(r) /\ q \in DOMAIN src.pix
                THEN src.pix[q] ELSE dst.pix[p]]]

\* draw.Draw(dst, r, src, sp, draw.Src): the points of r inside dst take the
\* colour of src at sp + (p - r.Min); points that src does not cover are
\* not drawn
Draw(dst, r, src, sp) ==
    [dst EXCEPT !.pix =
        [p \in DOMAIN dst.pix |->
            LET q == <<sp[1] + (p[1] - r.minX), sp[2] + (p[2] - r.minY)>>
            IN  IF p \in Points(r) /\ q \in DOMAIN src.pix
                THEN src.pix[q] ELSE dst.pix[p]]]

createCompositeImage(i1, i2, d) ==
    LET b      == i1.bounds
        width  == Dx(b) * 3
        height == Dy(b)
        c0     == NewRGBA(Rect(0, 0, width, height))
        c1     == Draw(c0, Rect(0, 0, Dx(b), Dy(b)), i1, <<b.minX, b.minY>>)
        c2     == Draw(c1, Rect(Dx(b), 0, Dx(b) * 2, Dy(b)), d, <<b.minX, b.minY>>)
    IN  Draw(c2, Rect(Dx(b) * 2, 0, width, Dy(b)), i2, <<b.minX, b.minY>>)

\* the sizes <<width, height>> of the images main decodes: an empty one,
\* small ones, and a wide and a tall one that main splits into two chunks
MainSizes == {<<0, 1>>, <<3, 1>>, <<3, 2>>, <<MaxEdge, 1>>, <<1, MaxEdge + 1>>}

\* the textures of the wide and the tall images
LargePairs == {<<"three", "checker">>, <<"checker", "uniB">>}

MainPairs(size) ==
    IF size[1] * size[2] >= minChunkSize THEN LargePairs ELSE TexturePairs

Init ==
    /\ pc = "validate"
    /\ diffMode \in DiffModes
    /\ normalized \in BOOLEAN
    /\ scaleFlag = <<2, 1>>
    /\ normScaleFlag = <<50, 1>>
    /\ scaleFactor = Zero
    /\ img1 = NoImage /\ img2 = NoImage
    /\ bounds1 = NoImage.bounds /\ bounds2 = NoImage.bounds
    /\ stats1 = ZeroStats /\ stats2 = ZeroStats /\ statsCalls = 0
    /\ diffImg = NoImage
    /\ numChunksX = 0 /\ numChunksY = 0 /\ iter = <<0, 0>> /\ chunks = <<>>
    /\ workers = <<>> /\ wg = 0
    /\ count1 = 0 /\ count2 = 0 /\ diffCount = 0
    /\ writtenBy = <<>>
    /\ NothingOut

\* the error is printed, then os.Exit(1)
Exit1(msg) == pc' = "exit" /\ exitCode' = 1 /\ errMsg' = msg

\* lines 426-431
ValidateMode ==
    /\ pc = "validate"
    /\ IF ValidDiffMode(diffMode)
       THEN pc' = "decode" /\ UNCHANGED outVars
       ELSE /\ Exit1("Invalid -diff-mode value")
            /\ UNCHANGED <<logged, reported, finalImg, outFile, tmpFile, viewer>>
    /\ UNCHANGED <<flags, scaleFactor, images, statVars, diffImg, gridVars, iter,
                   chunks, workers, wg, counters, writtenBy>>

\* lines 433-481: a file does not open or does not decode
DecodeFail ==
    /\ pc = "decode"
    /\ Exit1("Error opening or decoding image")
    /\ UNCHANGED <<flags, scaleFactor, images, statVars, diffImg, gridVars, iter,
                   chunks, workers, wg, counters, writtenBy, logged, reported,
                   finalImg, outFile, tmpFile, viewer>>

\* lines 433-481: both images decode
DecodeOK ==
    /\ pc = "decode"
    /\ \E s1 \in MainSizes, s2 \in MainSizes :
       \E t \in MainPairs(s1) :
          /\ img1' = MakeImage(Rect(0, 0, s1[1], s1[2]), t[1])
          /\ img2' = MakeImage(Rect(0, 0, s2[1], s2[2]), t[2])
    /\ normalized => ExactStatsInput(img1') /\ ExactStatsInput(img2')
    /\ pc' = "bounds"
    /\ UNCHANGED <<flags, scaleFactor, bounds1, bounds2, statVars, diffImg,
                   gridVars, iter, chunks, workers, wg, counters, writtenBy,
                   outVars>>

\* lines 483-489
CheckBounds ==
    /\ pc = "bounds"
    /\ bounds1' = img1.bounds
    /\ bounds2' = img2.bounds
    /\ IF BoundsDiffer(bounds1', bounds2')
       THEN /\ Exit1("Images must have the same dimensions")
            /\ UNCHANGED <<logged, reported, finalImg, outFile, tmpFile, viewer>>
       ELSE pc' = "stats" /\ UNCHANGED outVars
    /\ UNCHANGED <<flags, scaleFactor, img1, img2, statVars, diffImg, gridVars,
                   iter, chunks, workers, wg, counters, writtenBy>>

\* lines 491-501
Stats ==
    /\ pc = "stats"
    /\ IF normalized
       THEN /\ stats1' = calculateImageStats(img1)
            /\ stats2' = calculateImageStats(img2)
            /\ statsCalls' = statsCalls + 2
       ELSE UNCHANGED statVars
    /\ pc' = "alloc"
    /\ UNCHANGED <<flags, scaleFactor, images, diffImg, gridVars, iter, chunks,
                   workers, wg, counters, writtenBy, outVars>>

\* lines 503-508
Alloc ==
    /\ pc = "alloc"
    /\ diffImg' = NewRGBA(bounds1)
    /\ writtenBy' = [p \in Points(bounds1) |-> <<>>]
    /\ scaleFactor' = IF normalized THEN normScaleFlag ELSE scaleFlag
    /\ pc' = "grid"
    /\ UNCHANGED <<flags, images, statVars, gridVars, iter, chunks, workers, wg,
                   counters, outVars>>

\* lines 510-529 when runtime.NumCPU() returns numCPU
GridFor(numCPU) ==
    /\ pc = "grid"
    /\ numChunksX' = MainGrid(numCPU, bounds1)[1]
    /\ numChunksY' = MainGrid(numCPU, bounds1)[2]
    /\ iter' = <<0, 0>>
    /\ pc' = "range"
    /\ UNCHANGED <<flags, scaleFactor, images, statVars, diffImg, chunks,
                   workers, wg, counters, writtenBy, outVars>>

\* lines 510-529
Grid == \E numCPU \in 1 .. MaxCPU : GridFor(numCPU)

\* line 538: the iterator yields the next chunk to the body of the loop
RangeNext ==
    /\ pc = "range"
    /\ ~IterDone(numChunksY, iter[1])
    /\ chunks' = Append(chunks,
                        ChunkAt(bounds1, numChunksX, numChunksY, iter[1], iter[2]))
    /\ iter' = IterAdvance(numChunksX, iter[1], iter[2])
    /\ pc' = "wgAdd"
    /\ UNCHANGED <<flags, scaleFactor, images, statVars, diffImg, gridVars,
                   workers, wg, counters, writtenBy, outVars>>

\* line 539
WgAddOne ==
    /\ pc = "wgAdd"
    /\ wg' = WgAdd(wg)
    /\ pc' = "go"
    /\ UNCHANGED <<flags, scaleFactor, images, statVars, diffImg, gridVars, iter,
                   chunks, workers, counters, writtenBy, outVars>>

\* lines 540-546: the go statement starts a goroutine on the chunk
Go ==
    /\ pc = "go"
    /\ workers' = Append(workers, Frame(chunks[Len(chunks)]))
    /\ pc' = "range"
    /\ UNCHANGED <<flags, scaleFactor, images, statVars, diffImg, gridVars, iter,
                   chunks, wg, counters, writtenBy, outVars>>

\* line 538: the iterator is exhausted
RangeDone ==
    /\ pc = "range"
    /\ IterDone(numChunksY, iter[1])
    /\ pc' = "wait"
    /\ UNCHANGED <<flags, scaleFactor, images, statVars, diffImg, gridVars, iter,
                   chunks, workers, wg, counters, writtenBy, outVars>>

\* lines 543-545 in worker w: the three atomic additions, in order
AddCount1(w) ==
    /\ workers[w].st = "returned"
    /\ count1' = AtomicAddInt64(count1, workers[w].c1)
    /\ workers' = [workers EXCEPT ![w].st = "added1"]
    /\ UNCHANGED <<pc, flags, scaleFactor, images, statVars, diffImg, gridVars,
                   iter, chunks, wg, count2, diffCount, writtenBy, outVars>>

AddCount2(w) ==
    /\ workers[w].st = "added1"
    /\ count2' = AtomicAddInt64(count2, workers[w].c2)
    /\ workers' = [workers EXCEPT ![w].st = "added2"]
    /\ UNCHANGED <<pc, flags, scaleFactor, images, statVars, diffImg, gridVars,
                   iter, chunks, wg, count1, diffCount, writtenBy, outVars>>

AddDiffCount(w) ==
    /\ workers[w].st = "added2"
    /\ diffCount' = AtomicAddInt64(diffCount, workers[w].c3)
    /\ workers' = [workers EXCEPT ![w].st = "added3"]
    /\ UNCHANGED <<pc, flags, scaleFactor, images, statVars, diffImg, gridVars,
                   iter, chunks, wg, count1, count2, writtenBy, outVars>>

\* line 541: the deferred wg.Done() as the goroutine's function returns
WgDone(w) ==
    /\ workers[w].st = "added3"
    /\ wg' = wg - 1
    /\ workers' = [workers EXCEPT ![w].st = "exited"]
    /\ UNCHANGED <<pc, flags, scaleFactor, images, statVars, diffImg, gridVars,
                   iter, chunks, counters, writtenBy, outVars>>

\* line 549
Wait ==
    /\ pc = "wait"
    /\ WaitReturns(wg)
    /\ pc' = "log"
    /\ UNCHANGED <<flags, scaleFactor, images, statVars, diffImg, gridVars, iter,
                   chunks, workers, wg, counters, writtenBy, outVars>>

\* lines 551-553: with -verbose the counters are printed
LogCounts ==
    /\ pc = "log"
    /\ \E verbose \in BOOLEAN :
          logged' = IF verbose THEN <<count1, count2, diffCount>> ELSE logged
    /\ pc' = "output"
    /\ UNCHANGED <<flags, scaleFactor, images, statVars, diffImg, gridVars, iter,
                   chunks, workers, wg, counters, writtenBy, reported, finalImg,
                   outFile, tmpFile, viewer, exitCode, errMsg>>

\* lines 555-585: os.CreateTemp or os.Create fails
OutputFail ==
    /\ pc = "output"
    /\ Exit1("Error creating output file")
    /\ UNCHANGED <<flags, scaleFactor, images, statVars, diffImg, gridVars, iter,
                   chunks, workers, wg, counters, writtenBy, logged, reported,
                   finalImg, outFile, tmpFile, viewer>>

\* lines 555-585: the output file exists, a temporary one without -output
OutputCreate ==
    /\ pc = "output"
    /\ tmpFile' \in BOOLEAN
    /\ outFile' = "created"
    /\ pc' = "encode"
    /\ UNCHANGED <<flags, scaleFactor, images, statVars, diffImg, gridVars, iter,
                   chunks, workers, wg, counters, writtenBy, logged, reported,
                   finalImg, viewer, exitCode, errMsg>>

\* lines 587-608: png.Encode fails
EncodeFail ==
    /\ pc = "encode"
    /\ \E includeInputs \in BOOLEAN :
          finalImg' = IF includeInputs THEN createCompositeImage(img1, img2, diffImg)
                      ELSE diffImg
    /\ Exit1("Error encoding output image")
    /\ UNCHANGED <<flags, scaleFactor, images, statVars, diffImg, gridVars, iter,
                   chunks, workers, wg, counters, writtenBy, logged, reported,
                   outFile, tmpFile, viewer>>

\* lines 587-624: the image is written and the message printed
EncodeOK ==
    /\ pc = "encode"
    /\ \E includeInputs \in BOOLEAN :
          finalImg' = IF includeInputs THEN createCompositeImage(img1, img2, diffImg)
                      ELSE diffImg
    /\ outFile' = "encoded"
    /\ reported' = IF normalized THEN <<>> ELSE <<diffCount>>
    /\ pc' = "open"
    /\ UNCHANGED <<flags, scaleFactor, images, statVars, diffImg, gridVars, iter,
                   chunks, workers, wg, counters, writtenBy, logged, tmpFile,
                   viewer, exitCode, errMsg>>

\* lines 626-634: the viewer does not start, or ends with an error
OpenFail ==
    /\ pc = "open"
    /\ Exit1("Error opening image")
    /\ UNCHANGED <<flags, scaleFactor, images, statVars, diffImg, gridVars, iter,
                   chunks, workers, wg, counters, writtenBy, logged, reported,
                   finalImg, outFile, tmpFile, viewer>>

\* lines 626-642: the viewer runs (with -wait, until it is closed), main returns
OpenOK ==
    /\ pc = "open"
    /\ \E wait \in BOOLEAN : viewer' = IF wait THEN "closed" ELSE "opened"
    /\ pc' = "done"
    /\ exitCode' = 0
    /\ UNCHANGED <<flags, scaleFactor, images, statVars, diffImg, gridVars, iter,
                   chunks, workers, wg, counters, writtenBy, logged, reported,
                   finalImg, outFile, tmpFile, errMsg>>

Next ==
    \/ ValidateMode
    \/ DecodeFail
    \/ DecodeOK
    \/ CheckBounds
    \/ Stats
    \/ Alloc
    \/ Grid
    \/ RangeNext
    \/ WgAddOne
    \/ Go
    \/ RangeDone
    \/ Wait
    \/ LogCounts
    \/ OutputFail
    \/ OutputCreate
    \/ EncodeFail
    \/ EncodeOK
    \/ OpenFail
    \/ OpenOK
    \/ \E w \in 1 .. Len(workers) : LoopStep(w)
    \/ \E w \in 1 .. Len(workers) : LoopReturn(w)
    \/ \E w \in 1 .. Len(workers) : AddCount1(w)
    \/ \E w \in 1 .. Len(workers) : AddCount2(w)
    \/ \E w \in 1 .. Len(workers) : AddDiffCount(w)
    \/ \E w \in 1 .. Len(workers) : WgDone(w)

Spec == Init /\ [][Next]_vars

(***************************************************************************)
(* createChunks called as a function (as TestCreateChunks does): the       *)
(* caller ranges over the iterator and collects what it yields.            *)
(***************************************************************************)
Origins == {<<0, 0>>, <<-2, 3>>}

InitChunks ==
    /\ pc = "collect"
    /\ \E o \in Origins, w \in 1 .. MaxDim, h \in 1 .. MaxDim :
          bounds1 = Rect(o[1], o[2], o[1] + w, o[2] + h)
    /\ numChunksX \in 1 .. MaxChunks
    /\ numChunksY \in 1 .. MaxChunks
    /\ iter = <<0, 0>>
    /\ chunks = <<>>
    /\ diffMode = "color" /\ normalized = FALSE
    /\ scaleFlag = <<2, 1>> /\ normScaleFlag = <<50, 1>> /\ scaleFactor = Zero
    /\ img1 = NoImage /\ img2 = NoImage /\ bounds2 = bounds1
    /\ stats1 = ZeroStats /\ stats2 = ZeroStats /\ statsCalls = 0
    /\ diffImg = NoImage
    /\ workers = <<>> /\ wg = 0
    /\ count1 = 0 /\ count2 = 0 /\ diffCount = 0
    /\ writtenBy = <<>>
    /\ NothingOut

\* one iteration of the loops of createChunks: the chunk is yielded
CollectChunk ==
    /\ pc = "collect"
    /\ ~IterDone(numChunksY, iter[1])
    /\ chunks' = Append(chunks,
                        ChunkAt(bounds1, numChunksX, numChunksY, iter[1], iter[2]))
    /\ iter' = IterAdvance(numChunksX, iter[1], iter[2])
    /\ UNCHANGED <<pc, flags, scaleFactor, images, statVars, diffImg, gridVars,
                   workers, wg, counters, writtenBy, outVars>>

\* the iterator returns: the range loop of the caller ends
CollectDone ==
    /\ pc = "collect"
    /\ IterDone(numChunksY, iter[1])
    /\ pc' = "collected"
    /\ UNCHANGED <<flags, scaleFactor, images, statVars, diffImg, gridVars, iter,
                   chunks, workers, wg, counters, writtenBy, outVars>>

NextChunks == CollectChunk \/ CollectDone

SpecChunks == InitChunks /\ [][NextChunks]_vars

(***************************************************************************)
(* C1, C2: the chunks of createChunks.                                     *)
(***************************************************************************)
ChunksOf(p) == {k \in 1 .. Len(chunks) : p \in ChunkPoints(chunks[k])}

\* C1: once createChunks has yielded all its chunks for bounds of width and
\* height >= 1 and a grid numChunksX, numChunksY >= 1, every point of the
\* bounds lies in exactly one chunk (the chunks are pairwise disjoint and
\* cover the bounds) and no chunk holds a point outside the bounds.
C1_ChunksTileBounds ==
    pc = "collected" =>
        /\ \A p \in Points(bounds1) : Cardinality(ChunksOf(p)) = 1
        /\ \A k \in 1 .. Len(chunks) : ChunkPoints(chunks[k]) \subseteq Points(bounds1)

\* a grid with a remainder on both axes and an origin that is not (0, 0)
C1_Witness ==
    /\ pc = "collected"
    /\ Len(chunks) = numChunksX * numChunksY
    /\ numChunksX = 3 /\ numChunksY = 2
    /\ Dx(bounds1) = 4 /\ Dy(bounds1) = 3
    /\ bounds1.minX = -2

\* C2: every chunk createChunks emits for bounds of area > 0 and a grid
\* numChunksX, numChunksY >= 1 has startX < endX and startY < endY, also
\* when numChunksX exceeds the width or numChunksY the height.
C2_NoEmptyChunk ==
    \A k \in 1 .. Len(chunks) :
        /\ chunks[k].startX < chunks[k].endX
        /\ chunks[k].startY < chunks[k].endY

(***************************************************************************)
(* C3 - C8, C10: the fork-join of main and its failure paths.              *)
(***************************************************************************)
\* main is past wg.Wait (every exit after the grid is chosen is one)
AfterWait ==
    \/ pc \in {"log", "output", "encode", "open", "done"}
    \/ pc = "exit" /\ numChunksX > 0

\* the bounds as one chunk: the sequential computation
WholeChunk(b) == [startX |-> b.minX, endX |-> b.maxX, startY |-> b.minY, endY |-> b.maxY]

Running == {w \in 1 .. Len(workers) : workers[w].st # "exited"}

\* C3: under every interleaving of the workers no point of the diff image
\* is ever written twice (so never by two workers), and once all workers
\* have finished and wg.Wait has returned every point of the bounds has
\* been written exactly once.
C3_EachPixelWrittenOnce ==
    /\ \A p \in DOMAIN writtenBy : Len(writtenBy[p]) <= 1
    /\ AfterWait =>
          \A p \in Points(bounds1) : p \in DOMAIN writtenBy /\ Len(writtenBy[p]) = 1

\* two workers have run to the end, each wrote points of its own
C3_Witness ==
    /\ AfterWait
    /\ Len(workers) = 2
    /\ \E p, q \in Points(bounds1) : writtenBy[p] = <<1>> /\ writtenBy[q] = <<2>>

RECURSIVE SumCounts(_, _)
SumCounts(ws, k) ==
    IF k = 0 THEN <<0, 0, 0>>
    ELSE LET r == SumCounts(ws, k - 1)
         IN  <<r[1] + ws[k].c1, r[2] + ws[k].c2, r[3] + ws[k].c3>>

\* C4: once all workers have finished, whatever the order of their atomic
\* additions, the three counters are the sums of the counts the calls of
\* computeDiffChunk returned, which are the numbers of non-zero left
\* pixels, of non-zero right pixels and of differing pixels of the whole
\* image (differing in some channel when not normalized).
C4_CountersAreSums ==
    AfterWait =>
        /\ <<count1, count2, diffCount>> = SumCounts(workers, Len(workers))
        /\ <<count1, count2, diffCount>> = ResultCounts(WholeChunk(bounds1), diffMode)
        /\ count1 = Cardinality({p \in Points(bounds1) : img1.pix[p] # <<0, 0, 0, 0>>})
        /\ count2 = Cardinality({p \in Points(bounds1) : img2.pix[p] # <<0, 0, 0, 0>>})
        /\ ~normalized =>
              diffCount = Cardinality({p \in Points(bounds1) : img1.pix[p] # img2.pix[p]})

\* two workers each returned differing and zero pixels
C4_Witness ==
    /\ AfterWait
    /\ Len(workers) = 2
    /\ \A w \in 1 .. 2 :
          /\ workers[w].c3 > 0
          /\ workers[w].c1 < Cardinality(ChunkPoints(workers[w].c))
    /\ diffCount = workers[1].c3 + workers[2].c3
    /\ count1 # count2

\* C5: the counters and the diff image are used (logged, composited,
\* encoded, reported) only after wg.Wait returned, and then every chunk has
\* a worker that has finished its loops, its three additions and its
\* wg.Done; every worker that has not left is counted by the wait group,
\* registered before the go statement.
C5_NoUseBeforeJoin ==
    /\ AfterWait =>
          /\ Len(workers) = numChunksX * numChunksY
          /\ \A w \in 1 .. Len(workers) :
                workers[w].st = "exited" /\ LoopDone(workers[w])
    /\ (logged # <<>> \/ reported # <<>> \/ finalImg # NoImage \/ outFile # "none")
          => Running = {}
    /\ wg = Cardinality(Running) + (IF pc = "go" THEN 1 ELSE 0)

\* wg.Wait has just returned on two workers
C5_Witness ==
    /\ pc = "log"
    /\ Len(workers) = 2
    /\ wg = 0
    /\ \A w \in 1 .. 2 : workers[w].st = "exited"

\* C6: the final counters and the final diff raster are a function of the
\* images, the grid and the configuration alone: under every scheduling of
\* the workers they are what one sequential pass over the whole image
\* gives.
C6_DeterministicResult ==
    AfterWait =>
        /\ diffImg = ResultImage(WholeChunk(bounds1), diffMode)
        /\ <<count1, count2, diffCount>> = ResultCounts(WholeChunk(bounds1), diffMode)

\* a run of two workers has ended on a raster of several colours
C6_Witness ==
    /\ pc = "done"
    /\ Len(workers) = 2
    /\ diffMode = "color"
    /\ diffCount > 0
    /\ \E p, q \in Points(bounds1) :
          /\ diffImg.pix[p] # diffImg.pix[q]
          /\ diffImg.pix[p] \notin {<<0, 0, 0, 255>>, <<255, 255, 255, 255>>}

Decoded == pc \notin {"validate", "decode"} /\ errMsg # "Error opening or decoding image"

\* C7: when the two decoded images differ in width or height, the program
\* exits with status 1 at the dimension check: no statistics are computed,
\* the diff image is not allocated, no worker is launched, no output file
\* is created and no viewer is opened.
C7_MismatchFailsEarly ==
    (Decoded /\ (Dx(img1.bounds) # Dx(img2.bounds) \/ Dy(img1.bounds) # Dy(img2.bounds))) =>
        /\ pc \in {"bounds", "exit"}
        /\ pc = "exit" => exitCode = 1 /\ errMsg = "Images must have the same dimensions"
        /\ statsCalls = 0
        /\ diffImg = NoImage
        /\ workers = <<>> /\ chunks = <<>>
        /\ outFile = "none"
        /\ viewer = "none"

\* images of the same width and different heights were refused
C7_Witness ==
    /\ pc = "exit"
    /\ exitCode = 1
    /\ Dx(img1.bounds) = Dx(img2.bounds)
    /\ Dy(img1.bounds) # Dy(img2.bounds)
    /\ Dx(img1.bounds) > 0

C16_OutputOpaque ==
    /\ \A p \in DOMAIN writtenBy :
          writtenBy[p] # <<>> => diffImg.pix[p][4] = 255
    /\ AfterWait => \A p \in DOMAIN diffImg.pix : diffImg.pix[p][4] = 255

\* a normalized run has ended on images with pixels of alpha 128 and alpha 0
C16_Witness ==
    /\ pc = "done"
    /\ normalized
    /\ Points(bounds1) # {}
    /\ \E p, q \in Points(bounds1) : At(img1, p)[4] = 128 /\ At(img2, q)[4] = 0
    /\ \A p \in Points(bounds1) : writtenBy[p] # <<>>

(***************************************************************************)
(* normalizePixel called as a function (as TestNormalizePixel does): the   *)
(* frame of the call holds the arguments and, once it returned, the result.*)
(***************************************************************************)
NormValues == {<<0, 1>>, <<50, 1>>, <<100, 1>>, <<255, 1>>, <<255, 2>>}

NormMeans == {<<0, 1>>, <<50, 1>>, <<150, 1>>, <<255, 2>>}

NormStds == {<<-25, 1>>, <<-1, 2>>, <<0, 1>>, <<10, 1>>, <<25, 1>>, <<255, 2>>}

NormFrame(value, mean, std) ==
    [value |-> value, mean |-> mean, std |-> std, result |-> Zero, st |-> "call"]

InitNorm ==
    /\ pc = "call"
    /\ \E value \in NormValues, mean \in NormMeans, std \in NormStds :
          workers = <<NormFrame(value, mean, std)>>
    /\ diffMode = "color" /\ normalized = TRUE
    /\ scaleFlag = <<2, 1>> /\ normScaleFlag = <<50, 1>> /\ scaleFactor = Zero
    /\ img1 = NoImage /\ img2 = NoImage
    /\ bounds1 = NoImage.bounds /\ bounds2 = NoImage.bounds
    /\ stats1 = ZeroStats /\ stats2 = ZeroStats /\ statsCalls = 0
    /\ diffImg = NoImage
    /\ numChunksX = 0 /\ numChunksY = 0 /\ iter = <<0, 0>> /\ chunks = <<>>
    /\ wg = 0 /\ count1 = 0 /\ count2 = 0 /\ diffCount = 0
    /\ writtenBy = <<>>
    /\ NothingOut

\* the call runs and returns
NormalizeCall ==
    /\ pc = "call"
    /\ workers' = [workers EXCEPT
                     ![1].result = normalizePixel(workers[1].value, workers[1].mean,
                                                  workers[1].std),
                     ![1].st = "returned"]
    /\ pc' = "returned"
    /\ UNCHANGED <<flags, scaleFactor, images, statVars, diffImg, gridVars, iter,
                   chunks, wg, counters, writtenBy, outVars>>

NextNorm == NormalizeCall

SpecNorm == InitNorm /\ [][NextNorm]_vars

\* the call with these arguments has returned this result
NormGives(value, mean, std, result) ==
    /\ pc = "returned"
    /\ workers[1].value = FromInt(value)
    /\ workers[1].mean = FromInt(mean)
    /\ workers[1].std = FromInt(std)
    /\ workers[1].result = FromInt(result)

NormCalled(value, mean, std) ==
    /\ pc = "returned"
    /\ workers[1].value = FromInt(value)
    /\ workers[1].mean = FromInt(mean)
    /\ workers[1].std = FromInt(std)

StatTextures == {"uniA", "uniB", "checker", "alpha", "mixed", "bw01", "three"}

InitStats ==
    /\ pc = "call"
    /\ \E o \in Origins, w \in 1 .. MaxSide + 1, h \in 1 .. MaxSide + 1,
          t \in StatTextures :
          /\ bounds1 = Rect(o[1], o[2], o[1] + w, o[2] + h)
          /\ img1 = MakeImage(bounds1, t)
    /\ ExactStatsInput(img1)
    /\ img2 = NoImage /\ bounds2 = NoImage.bounds
    /\ diffMode = "color" /\ normalized = TRUE
    /\ scaleFlag = <<2, 1>> /\ normScaleFlag = <<50, 1>> /\ scaleFactor = Zero
    /\ stats1 = ZeroStats /\ stats2 = ZeroStats /\ statsCalls = 0
    /\ diffImg = NoImage
    /\ numChunksX = 0 /\ numChunksY = 0 /\ iter = <<0, 0>> /\ chunks = <<>>
    /\ workers = <<>> /\ wg = 0
    /\ count1 = 0 /\ count2 = 0 /\ diffCount = 0
    /\ writtenBy = <<>>
    /\ NothingOut

\* the call runs and returns the ImageStats
StatsCall ==
    /\ pc = "call"
    /\ stats1' = calculateImageStats(img1)
    /\ statsCalls' = statsCalls + 1
    /\ pc' = "returned"
    /\ UNCHANGED <<flags, scaleFactor, images, stats2, diffImg, gridVars, iter,
                   chunks, workers, wg, counters, writtenBy, outVars>>

NextStats == StatsCall

SpecStats == InitStats /\ [][NextStats]_vars

\* the fields of an ImageStats by channel 1..4 = R, G, B, A
StatMean(st, c) ==
    CASE c = 1 -> st.meanR [] c = 2 -> st.meanG [] c = 3 -> st.meanB [] OTHER -> st.meanA

StatStd(st, c) ==
    CASE c = 1 -> st.stdR [] c = 2 -> st.stdG [] c = 3 -> st.stdB [] OTHER -> st.stdA

\* the sum of the 8-bit values of channel c over the points S, and of
\* their squares
RECURSIVE SumPix(_, _, _)
SumPix(img, c, S) ==
    IF S = {} THEN 0
    ELSE LET p == CHOOSE q \in S : TRUE
         IN  img.pix[p][c] + SumPix(img, c, S \ {p})

RECURSIVE SumSqPix(_, _, _)
SumSqPix(img, c, S) ==
    IF S = {} THEN 0
    ELSE LET p == CHOOSE q \in S : TRUE
         IN  img.pix[p][c] * img.pix[p][c] + SumSqPix(img, c, S \ {p})

\* mean is the arithmetic mean and std the population standard deviation
\* of channel c of img: n * mean = sum, std >= 0 and
\* n^2 * std^2 = n * (sum of squares) - sum^2
IsMeanAndStd(img, c, mean, std) ==
    LET n  == Cardinality(DOMAIN img.pix)
        sm == SumPix(img, c, DOMAIN img.pix)
        sq == SumSqPix(img, c, DOMAIN img.pix)
    IN  /\ ~IsNaN(mean) /\ ~IsNaN(std)
        /\ mean[1] * n = sm * mean[2]
        /\ std[1] >= 0
        /\ std[1] * std[1] * n * n = (n * sq - sm * sm) * std[2] * std[2]

\* C19: for an image of area > 0 calculateImageStats returns, for each of
\* the four channels, the arithmetic mean over all pixels and the
\* population standard deviation (divisor: the number of pixels); for an
\* image of one colour the means are the channels of that colour and every
\* standard deviation is 0; for the 2 x 2 checkerboard of 0 and 255 mean
\* and standard deviation are both 127.5.
C19_MeanAndPopulationStd ==
    pc = "returned" =>
        /\ \A c \in 1 .. 4 :
              IsMeanAndStd(img1, c, StatMean(stats1, c), StatStd(stats1, c))
        /\ Uniform(img1) =>
              \A c \in 1 .. 4 : \A p \in DOMAIN img1.pix :
                  /\ StatMean(stats1, c) = FromInt(img1.pix[p][c])
                  /\ StatStd(stats1, c) = Zero
        /\ img1 = MakeImage(Rect(0, 0, 2, 2), "bw01") =>
              \A c \in 1 .. 3 :
                  /\ StatMean(stats1, c) = <<255, 2>>
                  /\ StatStd(stats1, c) = <<255, 2>>

\* the statistics of the 2 x 2 checkerboard of 0 and 255
C19_Witness ==
    /\ pc = "returned"
    /\ img1 = MakeImage(Rect(0, 0, 2, 2), "bw01")
    /\ stats1.meanR = <<255, 2>> /\ stats1.stdR = <<255, 2>>
    /\ stats1.meanA = <<255, 1>> /\ stats1.stdA = Zero

(***************************************************************************)
(* createCompositeImage called as a function (as TestCreateCompositeImage  *)
(* does) on three images of the same bounds.                               *)
(***************************************************************************)
InitComposite ==
    /\ pc = "call"
    /\ \E o \in Origins, w \in 1 .. MaxSide, h \in 1 .. MaxSide,
          t1 \in StatTextures, t2 \in StatTextures, td \in StatTextures :
          /\ bounds1 = Rect(o[1], o[2], o[1] + w, o[2] + h)
          /\ img1 = MakeImage(bounds1, t1)
          /\ img2 = MakeImage(bounds1, t2)
          /\ diffImg = MakeImage(bounds1, td)
    /\ bounds2 = bounds1
    /\ diffMode = "color" /\ normalized = FALSE
    /\ scaleFlag = <<2, 1>> /\ normScaleFlag = <<50, 1>> /\ scaleFactor = Zero
    /\ stats1 = ZeroStats /\ stats2 = ZeroStats /\ statsCalls = 0
    /\ numChunksX = 0 /\ numChunksY = 0 /\ iter = <<0, 0>> /\ chunks = <<>>
    /\ workers = <<>> /\ wg = 0
    /\ count1 = 0 /\ count2 = 0 /\ diffCount = 0
    /\ writtenBy = <<>>
    /\ NothingOut

\* the call runs and returns the composite
CompositeCall ==
    /\ pc = "call"
    /\ finalImg' = createCompositeImage(img1, img2, diffImg)
    /\ pc' = "returned"
    /\ UNCHANGED <<flags, scaleFactor, images, statVars, diffImg, gridVars, iter,
                   chunks, workers, wg, counters, writtenBy, logged, reported,
                   outFile, tmpFile, viewer, exitCode, errMsg>>

NextComposite == CompositeCall

SpecComposite == InitComposite /\ [][NextComposite]_vars

\* the composite of three W x H images: bounds (0, 0)-(3W, H), the left
\* image in [0, W), the diff image in [W, 2W), the right image in [2W, 3W)
CompositeOf(comp, left, right, diff) ==
    LET b == left.bounds
        W == Dx(b)
        H == Dy(b)
    IN  /\ comp.bounds = Rect(0, 0, 3 * W, H)
        /\ DOMAIN comp.pix = Points(Rect(0, 0, 3 * W, H))
        /\ \A x \in 0 .. W - 1 : \A y \in 0 .. H - 1 :
              /\ comp.pix[<<x, y>>] = left.pix[<<b.minX + x, b.minY + y>>]
              /\ comp.pix[<<W + x, y>>] = diff.pix[<<b.minX + x, b.minY + y>>]
              /\ comp.pix[<<2 * W + x, y>>] = right.pix[<<b.minX + x, b.minY + y>>]

\* C20: for three images of the same W x H bounds createCompositeImage
\* returns an image of bounds (0, 0)-(3W, H) whose pixel (x, y) is the left
\* image's, (W + x, y) the diff image's and (2W + x, y) the right image's,
\* unblended, for all 0 <= x < W, 0 <= y < H; the call leaves the three
\* images as they were.
C20_CompositeLayout ==
    /\ [](pc = "returned" => CompositeOf(finalImg, img1, img2, diffImg))
    /\ [][img1' = img1 /\ img2' = img2 /\ diffImg' = diffImg]_vars

\* a composite of three different 2 x 2 images whose bounds do not start at
\* (0, 0), the left one with transparent pixels
C20_Witness ==
    /\ pc = "returned"
    /\ bounds1 = Rect(-2, 3, 0, 5)
    /\ img1.pix # img2.pix /\ img1.pix # diffImg.pix /\ img2.pix # diffImg.pix
    /\ ~Uniform(img1) /\ ~Uniform(img2) /\ ~Uniform(diffImg)
    /\ finalImg.bounds = Rect(0, 0, 6, 2)
    /\ \E p \in DOMAIN finalImg.pix : finalImg.pix[p][4] = 0

\* C22: after a run without -output (the output is a temporary file) has
\* ended with the viewer closed, the temporary file no longer exists.
C22_TempFileCleanedUp ==
    (pc = "done" /\ tmpFile) => outFile = "none"

(***************************************************************************)
(* The grid of main and the chunks of its range loop, for images whose     *)
(* edges lie around the multiples of minChunkSize and any number of CPUs   *)
(* up to MaxParallel.  The goroutines the loop starts are not scheduled    *)
(* before the loop ends.                                                   *)
(***************************************************************************)
MaxParallel == 16

GridEdges ==
    {1, minChunkSize - 1, minChunkSize, minChunkSize + 1,
     2 * minChunkSize - 1, 2 * minChunkSize, 2 * minChunkSize + 1,
     3 * minChunkSize - 1, 3 * minChunkSize,
     4 * minChunkSize - 1, 4 * minChunkSize, 4 * minChunkSize + 1}

\* wide images, tall images, and two that main may split on both axes
GridSizes ==
    {<<e, 1>> : e \in GridEdges} \cup {<<1, e>> : e \in GridEdges}
        \cup {<<2 * minChunkSize, 2 * minChunkSize>>,
              <<2 * minChunkSize + 1, minChunkSize + 1>>}

InitGrid ==
    /\ pc = "grid"
    /\ diffMode = "color" /\ normalized = FALSE
    /\ scaleFlag = <<2, 1>> /\ normScaleFlag = <<50, 1>> /\ scaleFactor = scaleFlag
    /\ \E size \in GridSizes : bounds1 = Rect(0, 0, size[1], size[2])
    /\ bounds2 = bounds1
    /\ img1 = MakeImage(bounds1, "uniA")
    /\ img2 = MakeImage(bounds1, "uniB")
    /\ stats1 = ZeroStats /\ stats2 = ZeroStats /\ statsCalls = 0
    /\ diffImg = NewRGBA(bounds1)
    /\ writtenBy = [p \in Points(bounds1) |-> <<>>]
    /\ numChunksX = 0 /\ numChunksY = 0 /\ iter = <<0, 0>> /\ chunks = <<>>
    /\ workers = <<>> /\ wg = 0
    /\ count1 = 0 /\ count2 = 0 /\ diffCount = 0
    /\ NothingOut

\* lines 510-529 on a machine of up to MaxParallel CPUs
GridAny == \E numCPU \in 1 .. MaxParallel : GridFor(numCPU)

NextGrid ==
    \/ GridAny
    \/ RangeNext
    \/ WgAddOne
    \/ Go
    \/ RangeDone

SpecGrid == InitGrid /\ [][NextGrid]_vars

\* the smaller of an edge and minChunkSize
MinEdge(n) == IF n < minChunkSize THEN n ELSE minChunkSize

\* C23: for an image of width W >= 1 and height H >= 1 and any number of
\* CPUs >= 1, the grid main computes has numChunksX >= 1 and
\* numChunksY >= 1, and each of the numChunksX * numChunksY chunks
\* createChunks yields for it is non-empty, of width >= min(W, 32) and
\* height >= min(H, 32).
C23_GridChunksBigEnough ==
    pc # "grid" =>
        /\ numChunksX >= 1 /\ numChunksY >= 1
        /\ \A k \in 1 .. Len(chunks) :
              /\ chunks[k].endX - chunks[k].startX >= 1
              /\ chunks[k].endY - chunks[k].startY >= 1
              /\ chunks[k].endX - chunks[k].startX >= MinEdge(Dx(bounds1))
              /\ chunks[k].endY - chunks[k].startY >= MinEdge(Dy(bounds1))
        /\ pc = "wait" => Len(chunks) = numChunksX * numChunksY

\* an image of width 65 that 16 CPUs would split in 4: the grid is shrunk
\* to two chunks, of widths 32 and 33
C23_Witness ==
    /\ pc = "wait"
    /\ Dx(bounds1) = 2 * minChunkSize + 1
    /\ numChunksX = 2 /\ numChunksY = 1
    /\ Len(chunks) = 2
    /\ chunks[1].endX - chunks[1].startX = minChunkSize
    /\ chunks[2].endX - chunks[2].startX = minChunkSize + 1

(***************************************************************************)
(* The fork-join of main (lines 535-549) from the state the grid leaves,   *)
(* under a scheduler that keeps running some goroutine that can run.       *)
(***************************************************************************)
ForkSizes == {<<3, 2>>, <<MaxEdge, 1>>, <<1, MaxEdge + 1>>}

InitFork ==
    /\ pc = "range"
    /\ diffMode = "color"
    /\ normalized \in BOOLEAN
    /\ scaleFlag = <<2, 1>> /\ normScaleFlag = <<50, 1>>
    /\ scaleFactor = IF normalized THEN normScaleFlag ELSE scaleFlag
    /\ \E size \in ForkSizes :
          /\ bounds1 = Rect(0, 0, size[1], size[2])
          /\ img1 = MakeImage(bounds1, "checker")
          /\ img2 = MakeImage(bounds1, "uniB")
    /\ normalized => ExactStatsInput(img1) /\ ExactStatsInput(img2)
    /\ bounds2 = bounds1
    /\ stats1 = IF normalized THEN calculateImageStats(img1) ELSE ZeroStats
    /\ stats2 = IF normalized THEN calculateImageStats(img2) ELSE ZeroStats
    /\ statsCalls = IF normalized THEN 2 ELSE 0
    /\ diffImg = NewRGBA(bounds1)
    /\ writtenBy = [p \in Points(bounds1) |-> <<>>]
    /\ \E numCPU \in 1 .. MaxCPU :
          /\ numChunksX = MainGrid(numCPU, bounds1)[1]
          /\ numChunksY = MainGrid(numCPU, bounds1)[2]
    /\ iter = <<0, 0>> /\ chunks = <<>>
    /\ workers = <<>> /\ wg = 0
    /\ count1 = 0 /\ count2 = 0 /\ diffCount = 0
    /\ NothingOut

NextFork ==
    \/ RangeNext
    \/ WgAddOne
    \/ Go
    \/ RangeDone
    \/ Wait
    \/ \E w \in 1 .. Len(workers) : LoopStep(w)
    \/ \E w \in 1 .. Len(workers) : LoopReturn(w)
    \/ \E w \in 1 .. Len(workers) : AddCount1(w)
    \/ \E w \in 1 .. Len(workers) : AddCount2(w)
    \/ \E w \in 1 .. Len(workers) : AddDiffCount(w)
    \/ \E w \in 1 .. Len(workers) : WgDone(w)

\* ENABLED <<NextFork>>_vars, from the guards of the actions: main is in
\* its loop, or at wg.Wait with the counter at zero, or a goroutine has not
\* left yet
ForkEnabled ==
    \/ pc \in {"range", "wgAdd", "go"}
    \/ pc = "wait" /\ WaitReturns(wg)
    \/ \E w \in 1 .. Len(workers) : workers[w].st # "exited"

\* weak fairness of NextFork, WF_vars(NextFork), with its ENABLED written
\* out as ForkEnabled
FairSpec ==
    InitFork /\ [][NextFork]_vars /\ ([]<>~ForkEnabled \/ []<><<NextFork>>_vars)

\* main is in its range loop or at wg.Wait
InForkJoin == pc \in {"range", "wgAdd", "go", "wait"}

\* C24: the range loop starts exactly one worker for each chunk
\* (numChunksX * numChunksY workers, without a cap); from the fork-join the
\* only way on is wg.Wait returning (no exit, no abort), which under fair
\* scheduling always happens, every worker having finished its loop and
\* its three additions.
C24_ForkJoinCompletes ==
    /\ []((pc = "wait" \/ pc = "log") =>
            /\ Len(chunks) = numChunksX * numChunksY
            /\ Len(workers) = Len(chunks)
            /\ \A k \in 1 .. Len(workers) : workers[k].c = chunks[k])
    /\ [](pc = "log" => \A k \in 1 .. Len(workers) : workers[k].st = "exited")
    /\ [][InForkJoin => (InForkJoin' \/ pc' = "log")]_vars
    /\ (pc = "range" ~> pc = "log")

\* wg.Wait has just returned on two workers that have both left
C24_Witness ==
    /\ pc = "log"
    /\ Len(workers) = 2
    /\ wg = 0
    /\ \A k \in 1 .. 2 : workers[k].st = "exited" /\ workers[k].c1 > 0
====
